---------------------------- MODULE Spec2Model ----------------------------
(***************************************************************************)
(* State-machine model of the NIP-46 remote signer integration             *)
(* (snippets/nip46-remote-signer/remote-signer.ts): the pairing URI        *)
(* parser, the session store, and RemoteSignerManager with its pending     *)
(* request map, its transport subscription and its async operations.       *)
(*                                                                         *)
(* JavaScript runs the manager on one thread.  Every async method runs     *)
(* synchronously up to its next `await`; each action below is one such     *)
(* synchronous stretch.  Strings are TLA+ strings, handled character by    *)
(* character with Len, SubSeq and \o.                                      *)
(***************************************************************************)
EXTENDS Integers, Sequences, FiniteSets, TLC

(***************************************************************************)
(* Strings                                                                 *)
(***************************************************************************)
CharAt(s, i) == SubSeq(s, i, i)

Upper == <<"A", "B", "C", "D", "E", "F">>
Lower == <<"a", "b", "c", "d", "e", "f">>

\* A string is a sequence of UTF-16 code units.  Module text being ASCII,
\* "|" is written for U+0130 (capital I with dot above) and "^" for U+0307
\* (combining dot above).
CapitalDottedI == "|"
CombiningDot == "^"

\* String.prototype.toLowerCase on one character (the model's alphabet has
\* no upper-case letters beyond A..F and U+0130, whose lower case is the
\* two code units "i", U+0307).
LowerChar(c) ==
    IF c = CapitalDottedI THEN "i" \o CombiningDot
    ELSE IF \E i \in 1..Len(Upper) : Upper[i] = c
    THEN Lower[CHOOSE i \in 1..Len(Upper) : Upper[i] = c]
    ELSE c

RECURSIVE LowerFrom(_, _)
LowerFrom(s, i) ==
    IF i > Len(s) THEN "" ELSE LowerChar(CharAt(s, i)) \o LowerFrom(s, i + 1)

\* String.prototype.toLowerCase
toLowerCase(s) == LowerFrom(s, 1)

StartsWith(s, p) == Len(s) >= Len(p) /\ SubSeq(s, 1, Len(p)) = p

RECURSIVE SkipSpaces(_, _)
SkipSpaces(s, i) ==
    IF i <= Len(s) /\ CharAt(s, i) = " " THEN SkipSpaces(s, i + 1) ELSE i

RECURSIVE DropSpaces(_, _)
DropSpaces(s, j) ==
    IF j >= 1 /\ CharAt(s, j) = " " THEN DropSpaces(s, j - 1) ELSE j

\* String.prototype.trim (the model's only white space is the blank).
trim(s) == SubSeq(s, SkipSpaces(s, 1), DropSpaces(s, Len(s)))

RECURSIVE FindFrom(_, _, _)
FindFrom(s, c, i) ==
    IF i > Len(s) THEN 0
    ELSE IF CharAt(s, i) = c THEN i ELSE FindFrom(s, c, i + 1)

\* String.prototype.split on a one-character separator.
RECURSIVE split(_, _)
split(s, c) ==
    LET k == FindFrom(s, c, 1)
    IN  IF k = 0 THEN <<s>>
        ELSE <<SubSeq(s, 1, k - 1)>> \o split(SubSeq(s, k + 1, Len(s)), c)

RECURSIVE PlusToSpace(_, _)
PlusToSpace(s, i) ==
    IF i > Len(s) THEN ""
    ELSE (IF CharAt(s, i) = "+" THEN " " ELSE CharAt(s, i)) \o PlusToSpace(s, i + 1)

\* One "name=value" piece of a query string as URLSearchParams reads it:
\* cut at the first "=", "+" decoded to a blank (the model's inputs carry
\* no percent escapes).
ParamOf(piece) ==
    LET k == FindFrom(piece, "=", 1)
    IN  IF k = 0 THEN <<PlusToSpace(piece, 1), "">>
        ELSE <<PlusToSpace(SubSeq(piece, 1, k - 1), 1),
               PlusToSpace(SubSeq(piece, k + 1, Len(piece)), 1)>>

\* new URLSearchParams(query): the sequence of <<name, value>> pairs.
URLSearchParams(query) ==
    LET pieces == SelectSeq(split(query, "&"), LAMBDA p : p # "")
    IN  [i \in 1..Len(pieces) |-> ParamOf(pieces[i])]

\* URLSearchParams.getAll(name)
getAll(params, name) ==
    LET hits == SelectSeq(params, LAMBDA p : p[1] = name)
    IN  [i \in 1..Len(hits) |-> hits[i][2]]

\* URLSearchParams.has(name)
has(params, name) == \E i \in 1..Len(params) : params[i][1] = name

\* URLSearchParams.get(name); "" stands for null where the caller applies
\* `|| undefined`, which maps null and "" alike.
get(params, name) ==
    IF has(params, name) THEN getAll(params, name)[1] ELSE ""

\* Optional values: <<>> is undefined, <<v>> is the value v.
Undefined == <<>>
Some(v) == <<v>>
OrUndefined(s) == IF s = "" THEN Undefined ELSE Some(s)

\* Variant: the values are trimmed, the empty ones kept.
TrimAll_KeepsEmpty(list) == [i \in 1..Len(list) |-> trim(list[i])]

\* .map((x) => x.trim()).filter(Boolean)
TrimAll(list) ==
    SelectSeq([i \in 1..Len(list) |-> trim(list[i])], LAMBDA r : r # "")

\* Array.prototype.join(",")
RECURSIVE join(_)
join(list) ==
    IF Len(list) = 0 THEN ""
    ELSE IF Len(list) = 1 THEN list[1]
    ELSE list[1] \o "," \o join(Tail(list))

(***************************************************************************)
(* parseRemoteSignerUri                                                    *)
(***************************************************************************)
KeyLength == 64

Failure(msg) == [ok |-> FALSE, error |-> msg]

ParseBunker(trimmed) ==
    LET withoutScheme == SubSeq(trimmed, Len("bunker://") + 1, Len(trimmed))
        parts      == split(withoutScheme, "?")
        pubkeyPart == parts[1]
        query      == IF Len(parts) >= 2 THEN parts[2] ELSE ""
        params     == URLSearchParams(query)
        relays     == TrimAll(getAll(params, "relay"))
        name       == get(params, "name")
    IN  IF pubkeyPart = "" \/ Len(pubkeyPart) # KeyLength
        THEN Failure("Invalid bunker token: missing remote signer pubkey")
        ELSE IF Len(relays) = 0
        THEN Failure("Remote signer token missing relay query param")
        ELSE [ok |-> TRUE,
              remotePubkey |-> toLowerCase(pubkeyPart),
              relays |-> relays,
              secret |-> OrUndefined(get(params, "secret")),
              permissions |-> Undefined,
              label |-> OrUndefined(IF name # "" THEN name ELSE get(params, "label"))]

\* Variant: a URI without perms parameter is refused.
ParseNostrConnect_RequiresPerms(trimmed) ==
    LET withoutScheme == SubSeq(trimmed, Len("nostrconnect://") + 1, Len(trimmed))
        parts        == split(withoutScheme, "?")
        clientPubkey == parts[1]
        query        == IF Len(parts) >= 2 THEN parts[2] ELSE ""
        params       == URLSearchParams(query)
        relays       == TrimAll(getAll(params, "relay"))
    IN  IF clientPubkey = "" \/ Len(clientPubkey) # KeyLength
        THEN Failure("Invalid nostrconnect URI: missing client pubkey")
        ELSE IF Len(relays) = 0
        THEN Failure("nostrconnect URI missing relay")
        ELSE IF ~has(params, "perms")
        THEN Failure("nostrconnect URI missing perms")
        ELSE [ok |-> TRUE,
              remotePubkey |-> toLowerCase(clientPubkey),
              relays |-> relays,
              secret |-> OrUndefined(get(params, "secret")),
              permissions |-> Some(TrimAll(split(get(params, "perms"), ","))),
              label |-> OrUndefined(get(params, "name"))]

\* Variant: the relays are checked before the key.
ParseNostrConnect_RelaysFirst(trimmed) ==
    LET withoutScheme == SubSeq(trimmed, Len("nostrconnect://") + 1, Len(trimmed))
        parts        == split(withoutScheme, "?")
        clientPubkey == parts[1]
        query        == IF Len(parts) >= 2 THEN parts[2] ELSE ""
        params       == URLSearchParams(query)
        relays       == TrimAll(getAll(params, "relay"))
    IN  IF Len(relays) = 0
        THEN Failure("nostrconnect URI missing relay")
        ELSE IF clientPubkey = "" \/ Len(clientPubkey) # KeyLength
        THEN Failure("Invalid nostrconnect URI: missing client pubkey")
        ELSE [ok |-> TRUE,
              remotePubkey |-> toLowerCase(clientPubkey),
              relays |-> relays,
              secret |-> OrUndefined(get(params, "secret")),
              permissions |-> IF has(params, "perms")
                              THEN Some(TrimAll(split(get(params, "perms"), ",")))
                              ELSE Undefined,
              label |-> OrUndefined(get(params, "name"))]

ParseNostrConnect(trimmed) ==
    LET withoutScheme == SubSeq(trimmed, Len("nostrconnect://") + 1, Len(trimmed))
        parts        == split(withoutScheme, "?")
        clientPubkey == parts[1]
        query        == IF Len(parts) >= 2 THEN parts[2] ELSE ""
        params       == URLSearchParams(query)
        relays       == TrimAll(getAll(params, "relay"))
    IN  IF clientPubkey = "" \/ Len(clientPubkey) # KeyLength
        THEN Failure("Invalid nostrconnect URI: missing client pubkey")
        ELSE IF Len(relays) = 0
        THEN Failure("nostrconnect URI missing relay")
        ELSE [ok |-> TRUE,
              remotePubkey |-> toLowerCase(clientPubkey),
              relays |-> relays,
              secret |-> OrUndefined(get(params, "secret")),
              permissions |-> IF has(params, "perms")
                              THEN Some(TrimAll(split(get(params, "perms"), ",")))
                              ELSE Undefined,
              label |-> OrUndefined(get(params, "name"))]

parseRemoteSignerUri(input) ==
    LET trimmed == trim(input)
    IN  IF input = "" THEN Failure("Remote signer token required")
        ELSE IF StartsWith(trimmed, "bunker://") THEN ParseBunker(trimmed)
        ELSE IF StartsWith(trimmed, "nostrconnect://") THEN ParseNostrConnect(trimmed)
        ELSE Failure("Unsupported remote signer URI. Use bunker:// or nostrconnect://")


(***************************************************************************)
(* Keys, sessions and the session store                                    *)
(***************************************************************************)
KIND_NIP46 == 24133

Digit(n) == SubSeq("0123456789", n + 1, n + 1)

\* generatePrivateKey(): a fresh secret key for the n-th connect() call.
generatePrivateKey(n) == "sk" \o Digit(n)

\* getPublicKey(secretKey): the public half of a key pair.
getPublicKey(sk) == "pk" \o SubSeq(sk, 3, Len(sk))

NoSession == [none |-> TRUE]
NoItem == [none |-> TRUE]
\* An item of the slot that JSON.parse throws on.
Unparsable == [unparsable |-> TRUE]
NoSub == ""

\* The session object built at the top of connect(); lastConnected (a clock
\* reading) is left out.
NewSession(config, n) ==
    [remotePubkey    |-> config.remotePubkey,
     relays          |-> config.relays,
     clientSecretKey |-> generatePrivateKey(n),
     clientPubkey    |-> getPublicKey(generatePrivateKey(n)),
     userPubkey      |-> "",
     secret          |-> config.secret,
     permissions     |-> config.permissions,
     label           |-> config.label]

\* The record localStorage holds under STORAGE_KEY, as JSON.parse returns it;
\* a missing field reads as "" (falsy).  A throw of JSON.parse is caught.
loadStoredRemoteSignerSession(raw) ==
    IF raw = NoItem \/ raw = Unparsable THEN NoSession
    ELSE IF raw.remotePubkey = "" \/ raw.clientSecretKey = "" \/ raw.userPubkey = ""
    THEN NoSession
    ELSE raw

\* persistRemoteSignerSession(session): the new content of the slot.
persistRemoteSignerSession(s) == IF s = NoSession THEN NoItem ELSE s

(***************************************************************************)
(* Inputs                                                                  *)
(***************************************************************************)
RemoteKeyA == "aaaaaaaaaaaaaaaaaaaaaaaaaaaaaaaaaaaaaaaaaaaaaaaaaaaaaaaaaaaaaaaa"
UserKeyLower == "bbbbbbbbbbbbbbbbbbbbbbbbbbbbbbbbbbbbbbbbbbbbbbbbbbbbbbbbbbbbbbbb"
UserKeyMixed == "BbbbbbbbbbbbbbbbbbbbbbbbbbbbbbbbbbbbbbbbbbbbbbbbbbbbbbbbbbbbbbbB"
IntruderKey == "eeeeeeeeeeeeeeeeeeeeeeeeeeeeeeeeeeeeeeeeeeeeeeeeeeeeeeeeeeeeeeee"

\* A JSON value that is not a string (null, a number, an object).
NotAString == "#not-a-string"

\* The session of an earlier pairing, as the slot holds it at process start.
StoredSession ==
    [remotePubkey    |-> RemoteKeyA,
     relays          |-> <<"wss://r0", "wss://r2">>,
     clientSecretKey |-> generatePrivateKey(0),
     clientPubkey    |-> getPublicKey(generatePrivateKey(0)),
     userPubkey      |-> UserKeyLower,
     secret          |-> Undefined,
     permissions     |-> Undefined,
     label           |-> Undefined]

InitialStorage == {NoItem, StoredSession}

\* Pairing URIs handed to connect().
PairingUris ==
    {"bunker://" \o RemoteKeyA \o "?relay=wss://r1&secret=s1",
     "bunker://" \o RemoteKeyA}

\* nostrconnect URIs with and without a secret, with and without perms.
ConnectUris ==
    {"nostrconnect://" \o RemoteKeyA \o "?relay=wss://r1" \o secret \o perms :
        secret \in {"", "&secret=s1"},
        perms \in {"", "&perms=sign_event,nip44_encrypt"}}

\* The parts of the strings handed to parseRemoteSignerUri: white space
\* around, a scheme, a key, query parameters as <<name, value>> pairs.
Schemes == {"bunker://", "nostrconnect://", "BUNKER://", "https://", ""}

MixedCaseKey == "ABCDEF" \o SubSeq(RemoteKeyA, 1, 58)
ShortKey == SubSeq(RemoteKeyA, 1, 63)
LongKey == RemoteKeyA \o "a"
DottedKey == CapitalDottedI \o SubSeq(RemoteKeyA, 1, 63)
UriKeys == {RemoteKeyA, MixedCaseKey, ShortKey, LongKey, DottedKey, ""}

Relay1 == <<"relay", "wss://r1">>
Relay2 == <<"relay", "wss://r2">>
ParamLists ==
    {<<>>,
     <<Relay1>>, <<Relay1, Relay2>>, <<Relay2, Relay1>>,
     <<<<"relay", "">>>>, <<<<"relay", " ">>>>, <<<<"relay", " wss://r1 ">>>>,
     <<<<"relay", "">>, Relay2>>,
     <<<<"secret", "s1">>>>, <<Relay1, <<"secret", "s1">>>>,
     <<Relay1, <<"perms", "sign_event, nip44_encrypt">>>>,
     <<Relay1, <<"perms", "">>>>,
     <<<<"name", "app">>, Relay1>>, <<Relay1, <<"label", "app">>>>}

UriParts == [pad : {"", " "}, scheme : Schemes, key : UriKeys, params : ParamLists]

\* A blank of a query value is written "+".
RECURSIVE SpaceToPlus(_, _)
SpaceToPlus(s, i) ==
    IF i > Len(s) THEN ""
    ELSE (IF CharAt(s, i) = " " THEN "+" ELSE CharAt(s, i)) \o SpaceToPlus(s, i + 1)

RECURSIVE QueryPieces(_)
QueryPieces(params) ==
    IF Len(params) = 0 THEN ""
    ELSE params[1][1] \o "=" \o SpaceToPlus(params[1][2], 1)
         \o (IF Len(params) = 1 THEN "" ELSE "&" \o QueryPieces(Tail(params)))

\* The string of the parts.
UriOf(parts) ==
    parts.pad \o parts.scheme \o parts.key
    \o (IF Len(parts.params) = 0 THEN "" ELSE "?" \o QueryPieces(parts.params))
    \o parts.pad

\* The items the slot may hold when loadStoredRemoteSignerSession reads it:
\* none, one that does not parse, or a record whose fields are whole,
\* cut short, or missing ("").
StoredRecords ==
    [remotePubkey    : {RemoteKeyA, ShortKey, ""},
     relays          : {<<"wss://r0">>, <<>>},
     clientSecretKey : {generatePrivateKey(0), "s", ""},
     clientPubkey    : {getPublicKey(generatePrivateKey(0)), ""},
     userPubkey      : {UserKeyLower, "bb", ""},
     secret          : {Undefined},
     permissions     : {Undefined},
     label           : {Undefined}]

StoredItems == {NoItem, Unparsable} \cup StoredRecords

\* The methods of signEvent, nip04Encrypt, nip04Decrypt, nip44Encrypt and
\* nip44Decrypt.
Methods == {"sign_event", "nip04_encrypt", "nip04_decrypt", "nip44_encrypt", "nip44_decrypt"}

\* The result of a sign_event response that is the JSON text of an event.
SignedEventJson == "{\"sig\":\"5\"}"

\* What a response carries: an error message, or a result.  The manager
\* looks into the result of get_public_key, and signEvent into that of
\* sign_event, which is a JSON text or a string that is none; the responses
\* to the other methods carry one result.
OutcomesFor(method) ==
    {[error |-> "denied", result |-> ""]}
    \cup {[error |-> "", result |-> r] :
            r \in CASE method = "get_public_key" -> {UserKeyMixed, "", NotAString}
                   [] method = "sign_event" -> {SignedEventJson, "ack"}
                   [] OTHER -> {"ack"}}

(***************************************************************************)
(* Bounds                                                                  *)
(***************************************************************************)
\* Spec: connect() calls and requests in one run.
MaxConnects == 1
MaxRequests == 2
\* PairingSpec: connect() calls in one run.
MaxPairings == 2
\* RequestsSpec: capability requests in one run.
MaxOperations == 3
\* CapabilitySpec: capability operations in one run.
MaxCalls == 2

(***************************************************************************)
(* State                                                                   *)
(***************************************************************************)
VARIABLES
    state,      \* this.state
    lastError,  \* this.lastError, the message handed to onStateChange
    session,    \* this.session
    storage,    \* localStorage[STORAGE_KEY]
    sub,        \* the client pubkey of the live subscription (this.unsubscribe)
    pending,    \* keys of this.pending
    timers,     \* request ids whose setTimeout is armed
    req,        \* every request a sendRequest call was made for, by id
    conn,       \* the connect() calls, in call order
    boot,       \* the bootstrapFromStorage() call
    windowNostr,    \* window.nostr
    originalNostr,  \* this.originalNostr
    input,      \* the argument of a parseRemoteSignerUri call
    output,     \* what a parseRemoteSignerUri or loadStoredRemoteSignerSession call returned
    outbox,     \* the deps.publish(event, relays) calls made
    hub         \* the eventHub of the clone-events-sse helper (another process)

vars == <<state, lastError, session, storage, sub, pending, timers, req, conn, boot,
          windowNostr, originalNostr, input, output, outbox, hub>>

\* What no method of the manager writes.
page == <<originalNostr, input, output, hub>>

\* window.nostr: no provider, the provider of a browser extension, the
\* adapter of the manager.
NoProvider == "undefined"
ExtensionProvider == "extension"
RemoteAdapter == "adapter"

\* No eventHub was made.
NoHub ==
    [created |-> FALSE, panicked |-> FALSE, locked |-> FALSE, maxBuffer |-> 0,
     buffer |-> <<>>, subscribers |-> <<>>, published |-> <<>>]

\* No parseRemoteSignerUri or loadStoredRemoteSignerSession call was made.
NoInput == [none |-> TRUE]
NoOutput == [called |-> FALSE]


REQUEST_TIMEOUT_MS == 15000
CONNECT_TIMEOUT_MS == 20000

\* Messages of errors a dependency (addRelay, subscribe, nip04.encrypt,
\* publish) may throw; an Error may carry an empty message.
DepsErrors == {"transport failure", ""}

\* Variant: the error's message as it is.
MessageOr_NoFallback(message, fallback) == message

\* error?.message || fallback
MessageOr(message, fallback) == IF message # "" THEN message ELSE fallback

\* The manager as its constructor leaves it, in a page whose window.nostr
\* is one of the providers.
NewManager(providers) ==
    /\ state = "idle"
    /\ lastError = ""
    /\ session = NoSession
    /\ sub = NoSub
    /\ pending = {}
    /\ timers = {}
    /\ req = <<>>
    /\ conn = <<>>
    /\ boot = [pc |-> "new", sess |-> NoSession]
    /\ originalNostr \in providers
    /\ windowNostr = originalNostr
    /\ output = NoOutput
    /\ outbox = {}

\* The page at process start: the slot empty or holding the session of an
\* earlier pairing.
Constructed(providers) ==
    /\ NewManager(providers)
    /\ storage \in InitialStorage
    /\ input = NoInput
    /\ hub = NoHub

Init == Constructed({NoProvider})

(***************************************************************************)
(* Promises and the pending map                                            *)
(***************************************************************************)
\* pending.resolve(value) / pending.reject(new Error(message)): the calls made
\* on a request's promise, in order.  The promise keeps the first.
Resolve(r, value) == [r EXCEPT !.calls = Append(@, [kind |-> "resolve", value |-> value])]
Reject(r, message) == [r EXCEPT !.calls = Append(@, [kind |-> "reject", value |-> message])]

\* One removal of the request's entry from this.pending.
Removed(r) == [r EXCEPT !.removals = @ + 1]

\* The request a sendRequest(session, method, params, timeoutMs) call is for;
\* its id is its index in req (randomRequestId: never the same id twice).
NewRequest(owner, method, params, sess, timeoutMs, sent) ==
    [owner |-> owner, method |-> method, params |-> params, sess |-> sess,
     timeoutMs |-> timeoutMs, sent |-> sent,
     calls |-> <<>>, removals |-> 0]

TimeoutMessage(method) == "Remote signer request " \o method \o " timed out"

(***************************************************************************)
(* notifyState, clearSession                                               *)
(***************************************************************************)
notifyState(newState, message) ==
    /\ state' = newState
    /\ lastError' = message

\* Variant: the map is emptied and the timers cleared, no promise rejected.
RejectAllPending_Silent ==
    /\ req' = req
    /\ timers' = timers \ pending
    /\ pending' = {}

\* The entries of this.pending after clearSession's forEach: each timer is
\* cleared and each promise rejected, then the map is emptied.
RejectAllPending ==
    /\ req' = [id \in DOMAIN req |->
                 IF id \in pending
                 THEN Reject(Removed(req[id]), "Remote signer disconnected")
                 ELSE req[id]]
    /\ timers' = timers \ pending
    /\ pending' = {}

\* Variant: clearSession deletes window.nostr whatever it was before.
clearSession_DeletesNostr ==
    /\ session' = NoSession
    /\ storage' = persistRemoteSignerSession(NoSession)
    /\ sub' = NoSub
    /\ RejectAllPending
    /\ windowNostr' = NoProvider

\* Variant: clearSession leaves the storage slot alone.
clearSession_KeepsStorage ==
    /\ session' = NoSession
    /\ storage' = storage
    /\ sub' = NoSub
    /\ RejectAllPending
    /\ windowNostr' = originalNostr

clearSession ==
    /\ session' = NoSession
    /\ storage' = persistRemoteSignerSession(NoSession)
    /\ sub' = NoSub
    /\ RejectAllPending
    /\ windowNostr' = originalNostr

SentIds == {id \in DOMAIN req : req[id].sent}

\* connect() call c is suspended on the promise of request id.
Awaits(c, id) ==
    /\ conn[c].pc \in {"await_connect", "await_get_public_key"}
    /\ conn[c].rid = id

\* A continuation is queued as a microtask: the call awaits a promise that
\* is already settled (ensureRelays, startSubscription and activateSession
\* finish without waiting on anything; a request's promise once resolved or
\* rejected).  The event loop runs every queued microtask before its next
\* task: a timer, an event from a relay, or the completion of nip04.encrypt
\* or nip04.decrypt.
MicrotaskQueued ==
    \/ \E c \in DOMAIN conn :
          \/ conn[c].pc \in {"subscribe", "activate", "apply_adapter", "notify_ready"}
          \/ /\ conn[c].pc \in {"await_connect", "await_get_public_key"}
             /\ req[conn[c].rid].calls # <<>>
    \/ boot.pc \in {"activate", "apply_adapter", "notify_ready"}

(***************************************************************************)
(* connect(uri)                                                            *)
(***************************************************************************)
\* Line 248, for each URI handed to connect().
ParsedUris == [uri \in PairingUris \cup ConnectUris |-> parseRemoteSignerUri(uri)]

ConnectFrame(pc, sess) ==
    [pc |-> pc, sess |-> sess, rid |-> 0, answered |-> FALSE,
     fromIdle |-> (state = "idle" /\ session = NoSession)]

\* Lines 248-267: parse (a throw leaves the manager untouched), notify
\* "connecting", build the session, call ensureRelays and suspend.
ConnectStart(uri) ==
    /\ LET config == ParsedUris[uri]
       IN  IF ~config.ok
           THEN UNCHANGED <<state, lastError, conn>>
           ELSE /\ notifyState("connecting", "")
                /\ conn' = Append(conn,
                       ConnectFrame("subscribe", NewSession(config, Len(conn) + 1)))
    /\ UNCHANGED <<session, storage, sub, pending, timers, req, boot, windowNostr, page, outbox>>

\* The catch block of connect (lines 293-298).
ConnectCatch(c, message) ==
    /\ clearSession
    /\ notifyState("error", MessageOr(message, "Remote signer pairing failed"))
    /\ conn' = [conn EXCEPT ![c].pc = "failed", ![c].sess = NoSession]
    /\ UNCHANGED <<boot, page, outbox>>

\* Variant: the old subscription is dropped and none is made.
startSubscription_None(sess) == sub' = NoSub

\* startSubscription(session): drop the old subscription, subscribe for the
\* session's client pubkey.
startSubscription(sess) == sub' = sess.clientPubkey

\* Lines 267-268 resumed: ensureRelays or subscribe threw, or the
\* subscription is replaced.
ConnectSubscribe(c) ==
    /\ c \in DOMAIN conn
    /\ conn[c].pc = "subscribe"
    /\ \/ \E e \in DepsErrors : ConnectCatch(c, e)
       \/ /\ startSubscription(conn[c].sess)
          /\ conn' = [conn EXCEPT ![c].pc = "send_connect"]
          /\ UNCHANGED <<state, lastError, session, storage, pending, timers, req, boot, windowNostr, page, outbox>>

\* Lines 270-276.
connectParams(sess) ==
    <<sess.remotePubkey>>
    \o (IF sess.secret # Undefined THEN <<sess.secret[1]>> ELSE <<>>)
    \o (IF sess.permissions # Undefined /\ Len(sess.permissions[1]) > 0
        THEN <<join(sess.permissions[1])>> ELSE <<>>)

\* JSON.stringify({id, method, params}): the members, in order.
RequestPayload(id, r) ==
    <<<<"id", id>>, <<"method", r.method>>, <<"params", r.params>>>>

\* nip04.encrypt(secretKey, pubkey, plaintext): readable by the holders of
\* secretKey and of the secret key of pubkey.
nip04_encrypt(secretKey, pubkey, plaintext) ==
    [from |-> getPublicKey(secretKey), to |-> pubkey, plaintext |-> plaintext]

\* The event sendRequest builds and signs for request id (lines 436-455);
\* created_at, id and sig are left out.
RequestEvent(id, r) ==
    [kind    |-> KIND_NIP46,
     content |-> nip04_encrypt(r.sess.clientSecretKey, r.sess.remotePubkey,
                              RequestPayload(id, r)),
     tags    |-> <<<<"p", r.sess.remotePubkey>>>>,
     pubkey  |-> getPublicKey(r.sess.clientSecretKey)]

\* Variant: the event is published, the pending entry and its timer are
\* not registered.
Publish_NoRegistration(id, r) ==
    /\ outbox' = outbox \cup {[event |-> RequestEvent(id, r), relays |-> r.sess.relays]}
    /\ req' = (IF id \in DOMAIN req THEN [req EXCEPT ![id] = r] ELSE Append(req, r))
    /\ UNCHANGED <<pending, timers>>

\* Variant: the event goes to the first relay of the session alone.
Publish_FirstRelayOnly(id, r) ==
    /\ outbox' = outbox \cup {[event |-> RequestEvent(id, r),
                               relays |-> SubSeq(r.sess.relays, 1, 1)]}
    /\ req' = (IF id \in DOMAIN req THEN [req EXCEPT ![id] = r] ELSE Append(req, r))
    /\ pending' = pending \cup {id}
    /\ timers' = timers \cup {id}

\* sendRequest from its publish on (lines 456-464): the event is published
\* to the relays of the session and, in the same synchronous stretch, the
\* pending entry and its timer are registered.
Publish(id, r) ==
    /\ outbox' = outbox \cup {[event |-> RequestEvent(id, r), relays |-> r.sess.relays]}
    /\ req' = (IF id \in DOMAIN req THEN [req EXCEPT ![id] = r] ELSE Append(req, r))
    /\ pending' = pending \cup {id}
    /\ timers' = timers \cup {id}

\* sendRequest(session, "connect" | "get_public_key", ...) up to its promise
\* (lines 277, 279): a dependency throws, or the request is published.
ConnectSend(c) ==
    /\ c \in DOMAIN conn
    /\ conn[c].pc \in {"send_connect", "send_get_public_key"}
    /\ ~MicrotaskQueued
    /\ \/ \E e \in DepsErrors : ConnectCatch(c, e)
       \/ /\ LET id == Len(req) + 1
                 first == conn[c].pc = "send_connect"
             IN  /\ Publish(id, NewRequest(c,
                        IF first THEN "connect" ELSE "get_public_key",
                        IF first THEN connectParams(conn[c].sess) ELSE <<>>,
                        conn[c].sess,
                        IF first THEN CONNECT_TIMEOUT_MS ELSE REQUEST_TIMEOUT_MS,
                        TRUE))
                 /\ conn' = [conn EXCEPT
                       ![c].pc = IF first THEN "await_connect" ELSE "await_get_public_key",
                       ![c].rid = id]
          /\ UNCHANGED <<state, lastError, session, storage, sub, boot, windowNostr, page>>

\* Variant: any string is taken, the empty one included.
IsPubkeyResult_AnyString(v) == v # NotAString

\* Line 280: the get_public_key result is usable.
IsPubkeyResult(v) == v # "" /\ v # NotAString

\* activateSession up to its first await (lines 354-356).
ActivateStart(sess) ==
    /\ session' = sess
    /\ storage' = persistRemoteSignerSession(sess)

\* The continuation of `await this.sendRequest(...)` in connect: the promise
\* was rejected (catch), or resolved (lines 279-286).
ConnectResume(c) ==
    /\ c \in DOMAIN conn
    /\ conn[c].pc \in {"await_connect", "await_get_public_key"}
    /\ req[conn[c].rid].calls # <<>>
    /\ LET out == req[conn[c].rid].calls[1]
       IN  IF out.kind = "reject" THEN ConnectCatch(c, out.value)
           ELSE IF conn[c].pc = "await_connect"
           THEN /\ conn' = [conn EXCEPT ![c].pc = "send_get_public_key",
                                        ![c].answered = FALSE]
                /\ UNCHANGED <<state, lastError, session, storage, sub, pending,
                               timers, req, boot, windowNostr, page, outbox>>
           ELSE IF ~IsPubkeyResult(out.value)
           THEN ConnectCatch(c, "Remote signer did not return a pubkey")
           ELSE LET sess == [conn[c].sess EXCEPT !.userPubkey = toLowerCase(out.value)]
                IN  /\ ActivateStart(sess)
                    /\ conn' = [conn EXCEPT ![c].pc = "activate", ![c].sess = sess,
                                            ![c].answered = FALSE]
                    /\ UNCHANGED <<state, lastError, sub, pending, timers, req, boot, windowNostr, page, outbox>>

\* activateSession resumed (lines 356-358).
ConnectActivate(c) ==
    /\ c \in DOMAIN conn
    /\ conn[c].pc = "activate"
    /\ \/ \E e \in DepsErrors : ConnectCatch(c, e)
       \/ /\ startSubscription(conn[c].sess)
          /\ conn' = [conn EXCEPT ![c].pc = "apply_adapter"]
          /\ UNCHANGED <<state, lastError, session, storage, pending, timers, req, boot, windowNostr, page, outbox>>

\* applyNip07Adapter (lines 467-472).
applyNip07Adapter == windowNostr' = RemoteAdapter

\* activateSession resumed after startSubscription (line 358), within
\* connect.
ConnectAdapter(c) ==
    /\ c \in DOMAIN conn
    /\ conn[c].pc = "apply_adapter"
    /\ applyNip07Adapter
    /\ conn' = [conn EXCEPT ![c].pc = "notify_ready"]
    /\ UNCHANGED <<state, lastError, session, storage, sub, pending, timers, req, boot, page, outbox>>

\* Lines 287-292.
ConnectFinish(c) ==
    /\ c \in DOMAIN conn
    /\ conn[c].pc = "notify_ready"
    /\ notifyState("ready", "")
    /\ conn' = [conn EXCEPT ![c].pc = "done", ![c].sess = NoSession]
    /\ UNCHANGED <<session, storage, sub, pending, timers, req, boot, windowNostr, page, outbox>>

(***************************************************************************)
(* bootstrapFromStorage()                                                  *)
(***************************************************************************)
BootStart ==
    /\ boot.pc = "new"
    /\ LET stored == loadStoredRemoteSignerSession(storage)
       IN  IF stored = NoSession
           THEN /\ boot' = [boot EXCEPT !.pc = "done"]
                /\ UNCHANGED <<session, storage>>
           ELSE /\ ActivateStart(stored)
                /\ boot' = [pc |-> "activate", sess |-> stored]
    /\ UNCHANGED <<state, lastError, sub, pending, timers, req, conn, windowNostr, page, outbox>>

\* The catch block of bootstrapFromStorage (lines 237-241).
BootCatch(message) ==
    /\ clearSession
    /\ notifyState("error", MessageOr(message, "Failed to resume remote signer session"))
    /\ boot' = [pc |-> "failed", sess |-> NoSession]
    /\ UNCHANGED <<conn, page, outbox>>

BootActivate ==
    /\ boot.pc = "activate"
    /\ \/ \E e \in DepsErrors : BootCatch(e)
       \/ /\ startSubscription(boot.sess)
          /\ boot' = [boot EXCEPT !.pc = "apply_adapter"]
          /\ UNCHANGED <<state, lastError, session, storage, pending, timers, req, conn, windowNostr, page, outbox>>

\* activateSession resumed after startSubscription (line 358), within
\* bootstrapFromStorage.
BootAdapter ==
    /\ boot.pc = "apply_adapter"
    /\ applyNip07Adapter
    /\ boot' = [boot EXCEPT !.pc = "notify_ready"]
    /\ UNCHANGED <<state, lastError, session, storage, sub, pending, timers, req, conn, page, outbox>>

BootFinish ==
    /\ boot.pc = "notify_ready"
    /\ notifyState("ready", "")
    /\ boot' = [pc |-> "done", sess |-> NoSession]
    /\ UNCHANGED <<session, storage, sub, pending, timers, req, conn, windowNostr, page, outbox>>

(***************************************************************************)
(* disconnect()                                                            *)
(***************************************************************************)
Disconnect ==
    /\ clearSession
    /\ notifyState("idle", "")
    /\ UNCHANGED <<conn, boot, page, outbox>>

(***************************************************************************)
(* signEvent, nip04Encrypt, nip04Decrypt, nip44Encrypt, nip44Decrypt       *)
(***************************************************************************)
\* requireSession(): the operation goes on with this.session.
requireSession == session # NoSession

CapabilityParams(method) ==
    IF method = "sign_event" THEN <<"event">> ELSE <<"peer", "text">>

\* The call up to sendRequest's first await; without a session it throws
\* "Remote signer not paired" and nothing changes.
CapabilityCall(method) ==
    /\ IF requireSession
       THEN req' = Append(req, NewRequest(0, method, CapabilityParams(method),
                                          session, REQUEST_TIMEOUT_MS, FALSE))
       ELSE UNCHANGED req
    /\ UNCHANGED <<state, lastError, session, storage, sub, pending, timers, conn, boot, windowNostr, page, outbox>>

\* sendRequest resumed after ensureRelays and nip04.encrypt, for the session
\* the call captured.
CapabilitySend(id) ==
    /\ id \in DOMAIN req
    /\ req[id].owner = 0 /\ ~req[id].sent /\ req[id].calls = <<>>
    /\ ~MicrotaskQueued
    /\ \/ /\ req' = [req EXCEPT ![id] = Reject(@, "transport failure")]
          /\ UNCHANGED <<pending, timers, outbox>>
       \/ Publish(id, [req[id] EXCEPT !.sent = TRUE])
    /\ UNCHANGED <<state, lastError, session, storage, sub, conn, boot, windowNostr, page>>

\* JSON.parse(text) of line 316 on the result strings of the model: the
\* text of an object parses to that object, any other string is a
\* SyntaxError.
IsJsonText(text) ==
    /\ Len(text) >= 2
    /\ CharAt(text, 1) = "{"
    /\ CharAt(text, Len(text)) = "}"

JSONParse(text) == "object " \o text

Returns(value) == [kind |-> "return", value |-> value]
Throws(message) == [kind |-> "throw", value |-> message]

\* What the caller of signEvent, nip04Encrypt, nip04Decrypt, nip44Encrypt or
\* nip44Decrypt gets when sendRequest resolves with `result` (lines 312-338):
\* signEvent parses a string result, the others return it as it is.
ReturnOf(method, result) ==
    IF method = "sign_event" /\ result # NotAString
    THEN IF IsJsonText(result) THEN Returns(JSONParse(result)) ELSE Throws("SyntaxError")
    ELSE Returns(result)

\* The outcome of the capability operation that made request r, once its
\* promise is settled: a rejection of sendRequest goes to the caller as it is.
CallerOutcome(r) ==
    LET first == r.calls[1] IN
    IF first.kind = "reject" THEN Throws(first.value) ELSE ReturnOf(r.method, first.value)

(***************************************************************************)
(* Timers and inbound events                                               *)
(***************************************************************************)
\* Variant: the timer callback rejects and leaves the entry in the map.
TimerFire_KeepsEntry(id) ==
    /\ id \in timers
    /\ ~MicrotaskQueued
    /\ timers' = timers \ {id}
    /\ pending' = pending
    /\ req' = [req EXCEPT ![id] = Reject(@, TimeoutMessage(req[id].method))]
    /\ UNCHANGED <<state, lastError, session, storage, sub, conn, boot, windowNostr, page, outbox>>

\* The setTimeout callback of sendRequest (lines 459-462).
TimerFire(id) ==
    /\ id \in timers
    /\ ~MicrotaskQueued
    /\ timers' = timers \ {id}
    /\ pending' = pending \ {id}
    /\ req' = [req EXCEPT ![id] =
                 Reject(IF id \in pending THEN Removed(@) ELSE @,
                        TimeoutMessage(req[id].method))]
    /\ UNCHANGED <<state, lastError, session, storage, sub, conn, boot, windowNostr, page, outbox>>

\* The client pubkeys an event may name in its "p" tags.
ClientKeys ==
    {req[j].sess.clientPubkey : j \in SentIds}
    \cup (IF session # NoSession THEN {session.clientPubkey} ELSE {})
    \cup (IF sub # NoSub THEN {sub} ELSE {})

\* The responses naming published request i that a writer may put on the
\* bus: from the remote signer or from another writer, with any "p" tags,
\* carrying an error or a result.
ResponsesTo(i) ==
    {[kind |-> KIND_NIP46, from |-> f, p |-> t, id |-> i, out |-> o, garbled |-> FALSE] :
        f \in {RemoteKeyA, IntruderKey},
        t \in SUBSET ClientKeys \ {{}},
        o \in OutcomesFor(req[i].method)}

\* Events for the live subscription that answer no request: of the
\* protocol kind or of another, with a content that decrypts to a message
\* without id or that does not decrypt or parse.
StrayEvents ==
    {[kind |-> k, from |-> RemoteKeyA, p |-> {sub}, id |-> 0,
      out |-> [error |-> "", result |-> ""], garbled |-> g] :
        k \in {KIND_NIP46, 1}, g \in BOOLEAN}

\* The events the bus may hand to the subscription callback.
Events == UNION {ResponsesTo(i) : i \in SentIds} \cup StrayEvents

\* The remote signer of the request answered it, with a result, to the
\* request's client pubkey, while the subscription for that key is live
\* and the request's timer has not fired.
AnswersInTime(event) ==
    /\ event.id \in timers
    /\ event.kind = KIND_NIP46 /\ ~event.garbled
    /\ event.from = req[event.id].sess.remotePubkey
    /\ event.p = {req[event.id].sess.clientPubkey}
    /\ sub = req[event.id].sess.clientPubkey
    /\ event.out.error = ""

\* Variant: the "p" tags are not looked at.
Accepts_AnyRecipient(event) ==
    /\ session # NoSession
    /\ event.kind = KIND_NIP46

\* handleIncomingEvent up to `await nip04.decrypt` (lines 404-408): there is
\* an active session and the event is of the kind and names its client
\* pubkey in a "p" tag.
Accepts(event) ==
    /\ session # NoSession
    /\ event.kind = KIND_NIP46
    /\ session.clientPubkey \in event.p

\* Variant: settling one request clears the timers of all.
Settle_ClearsAllTimers(event) ==
    IF event.garbled \/ event.id = 0 \/ event.id \notin pending
    THEN UNCHANGED <<pending, timers, req>>
    ELSE /\ pending' = pending \ {event.id}
         /\ timers' = {}
         /\ req' = [req EXCEPT ![event.id] =
                      IF event.out.error # ""
                      THEN Reject(Removed(@), event.out.error)
                      ELSE Resolve(Removed(@), event.out.result)]

\* Variant: the entry is deleted and its timer cleared, the promise is
\* left unsettled.
Settle_LeavesPromise(event) ==
    IF event.garbled \/ event.id = 0 \/ event.id \notin pending
    THEN UNCHANGED <<pending, timers, req>>
    ELSE /\ pending' = pending \ {event.id}
         /\ timers' = timers \ {event.id}
         /\ req' = [req EXCEPT ![event.id] = Removed(@)]

\* Variant: a content that does not decrypt or parse tears the pending
\* requests down.
Settle_GarbledRejectsAll(event) ==
    IF event.garbled THEN RejectAllPending
    ELSE IF event.id = 0 \/ event.id \notin pending
    THEN UNCHANGED <<pending, timers, req>>
    ELSE /\ pending' = pending \ {event.id}
         /\ timers' = timers \ {event.id}
         /\ req' = [req EXCEPT ![event.id] =
                      IF event.out.error # ""
                      THEN Reject(Removed(@), event.out.error)
                      ELSE Resolve(Removed(@), event.out.result)]

\* Variant: the handler settles the promise and leaves the timer armed.
Settle_KeepsTimer(event) ==
    IF event.garbled \/ event.id = 0 \/ event.id \notin pending
    THEN UNCHANGED <<pending, timers, req>>
    ELSE /\ pending' = pending \ {event.id}
         /\ timers' = timers
         /\ req' = [req EXCEPT ![event.id] =
                      IF event.out.error # ""
                      THEN Reject(Removed(@), event.out.error)
                      ELSE Resolve(Removed(@), event.out.result)]

\* Variant: the error of a response is not looked at, every matching
\* response resolves the promise with its result.
Settle_IgnoresError(event) ==
    IF event.garbled \/ event.id = 0 \/ event.id \notin pending
    THEN UNCHANGED <<pending, timers, req>>
    ELSE /\ pending' = pending \ {event.id}
         /\ timers' = timers \ {event.id}
         /\ req' = [req EXCEPT ![event.id] = Resolve(Removed(@), event.out.result)]

\* handleIncomingEvent after the decrypt (lines 413-427): a payload that
\* does not decrypt or parse is logged; a message whose id has no pending
\* entry is ignored; otherwise the entry is deleted, its timer cleared and
\* its promise settled.
Settle(event) ==
    IF event.garbled \/ event.id = 0 \/ event.id \notin pending
    THEN UNCHANGED <<pending, timers, req>>
    ELSE /\ pending' = pending \ {event.id}
         /\ timers' = timers \ {event.id}
         /\ req' = [req EXCEPT ![event.id] =
                      IF event.out.error # ""
                      THEN Reject(Removed(@), event.out.error)
                      ELSE Resolve(Removed(@), event.out.result)]

\* The subscription callback is called with an event.  Between its two
\* halves the handler waits for nip04.decrypt; its second half reads only
\* this.pending and the decrypted message, and an entry that is pending then
\* was pending all along, so the handler is taken as one step, its checks
\* of lines 404-408 made against the session of that moment.  The ghost
\* field `answered` of a connect() call records that the request it awaits
\* was answered in time by its remote signer.
Deliver(event) ==
    /\ sub # NoSub
    /\ ~MicrotaskQueued
    /\ conn' = [c \in DOMAIN conn |->
                  IF Awaits(c, event.id) /\ AnswersInTime(event)
                  THEN [conn[c] EXCEPT !.answered = TRUE] ELSE conn[c]]
    /\ IF Accepts(event) THEN Settle(event) ELSE UNCHANGED <<pending, timers, req>>
    /\ UNCHANGED <<state, lastError, session, storage, sub, boot, windowNostr, page, outbox>>

(***************************************************************************)
(* Specifications                                                          *)
(***************************************************************************)
\* A connect() or bootstrapFromStorage() call is under way.
LifecycleCallInFlight ==
    \/ \E c \in DOMAIN conn : conn[c].pc \notin {"done", "failed"}
    \/ boot.pc \in {"activate", "apply_adapter", "notify_ready"}

\* The calls the host application makes, at any time.
Calls(methods, maxConnects, maxRequests) ==
    \/ Len(conn) < maxConnects /\ \E uri \in PairingUris : ConnectStart(uri)
    \/ BootStart
    \/ Disconnect
    \/ Len(req) < maxRequests /\ \E method \in methods : CapabilityCall(method)

\* The steps of the connect() calls under way.
ConnectSteps(maxRequests) ==
    \/ \E c \in DOMAIN conn : ConnectSubscribe(c)
    \/ \E c \in DOMAIN conn : Len(req) < maxRequests /\ ConnectSend(c)
    \/ \E c \in DOMAIN conn : ConnectResume(c)
    \/ \E c \in DOMAIN conn : ConnectActivate(c)
    \/ \E c \in DOMAIN conn : ConnectAdapter(c)
    \/ \E c \in DOMAIN conn : ConnectFinish(c)

\* The steps of bootstrapFromStorage() and of the capability calls under
\* way, the timers and the bus.
OtherSteps ==
    \/ BootActivate
    \/ BootAdapter
    \/ BootFinish
    \/ \E id \in DOMAIN req : CapabilitySend(id)
    \/ \E id \in DOMAIN req : TimerFire(id)
    \/ \E event \in Events : Deliver(event)

Next ==
    \/ Calls({"nip44_encrypt"}, MaxConnects, MaxRequests)
    \/ ConnectSteps(MaxRequests)
    \/ OtherSteps

\* The manager in full: every interleaving of calls, timers and events.
Spec == Init /\ [][Next]_vars

\* The lifecycle calls one after the other: the host starts connect(),
\* bootstrapFromStorage() or disconnect() only when no connect() or
\* bootstrapFromStorage() call is under way.
SeqNext ==
    \/ ~LifecycleCallInFlight /\ Calls({"nip44_encrypt"}, MaxConnects, MaxRequests)
    \/ Len(req) < MaxRequests /\ CapabilityCall("nip44_encrypt")
    \/ ConnectSteps(MaxRequests)
    \/ OtherSteps

SeqSpec == Init /\ [][SeqNext]_vars

\* The same with the scheduling of the JavaScript run time: a continuation
\* whose awaited promise is settled is run, and so is the callback of an
\* armed timer.  Nothing makes the host call or the bus deliver.
LiveSpec ==
    /\ SeqSpec
    /\ WF_vars(ConnectSteps(MaxRequests))
    /\ WF_vars(BootActivate \/ BootAdapter \/ BootFinish)
    /\ WF_vars(\E id \in DOMAIN req : CapabilitySend(id))
    /\ WF_vars(\E id \in DOMAIN req : TimerFire(id))

\* Several connect() calls, overlapping or not.
PairingNext ==
    \/ Calls({"nip44_encrypt"}, MaxPairings, MaxRequests)
    \/ ConnectSteps(MaxRequests)
    \/ OtherSteps

PairingSpec == Init /\ [][PairingNext]_vars

\* connect() with nostrconnect URIs, one call after the other, in a manager
\* with or without a restored session.
ParamsNext ==
    \/ ~LifecycleCallInFlight /\ BootStart
    \/ /\ ~LifecycleCallInFlight
       /\ Len(conn) < MaxPairings
       /\ \E uri \in ConnectUris : ConnectStart(uri)
    \/ ConnectSteps(MaxRequests)
    \/ BootActivate
    \/ BootAdapter
    \/ BootFinish
    \/ \E id \in DOMAIN req : TimerFire(id)
    \/ \E event \in Events : Deliver(event)

ParamsSpec == Init /\ [][ParamsNext]_vars

\* A restored session serving capability requests, no connect().
RequestsNext ==
    \/ BootStart
    \/ Disconnect
    \/ Len(req) < MaxOperations /\ CapabilityCall("nip44_encrypt")
    \/ OtherSteps

RequestsSpec == Init /\ [][RequestsNext]_vars

\* The lifecycle calls one after the other, in a page with or without a
\* provider of its own.
AdapterInit == Constructed({NoProvider, ExtensionProvider})

AdapterSpec == AdapterInit /\ [][SeqNext]_vars

\* A restored session in state ready serving the five capability operations.
CapabilityNext ==
    \/ BootStart
    \/ Disconnect
    \/ /\ state = "ready"
       /\ Len(req) < MaxCalls
       /\ \E method \in Methods : CapabilityCall(method)
    \/ OtherSteps

CapabilitySpec == Init /\ [][CapabilityNext]_vars

(***************************************************************************)
(* The exported functions, called on their own                             *)
(***************************************************************************)
manager == <<state, lastError, session, sub, pending, timers, req, conn, boot,
             windowNostr, originalNostr, outbox>>

\* parseRemoteSignerUri(input): the configuration returned or the error
\* thrown.
ParseUri ==
    /\ input # NoInput
    /\ ~output.called
    /\ output' = [called |-> TRUE, value |-> parseRemoteSignerUri(UriOf(input))]
    /\ UNCHANGED <<manager, storage, input, hub>>

\* loadStoredRemoteSignerSession(): the session returned, or null.
LoadStored ==
    /\ input = NoInput
    /\ ~output.called
    /\ output' = [called |-> TRUE, value |-> loadStoredRemoteSignerSession(storage)]
    /\ UNCHANGED <<manager, storage, input, hub>>

FunctionsInit ==
    /\ NewManager({NoProvider})
    /\ hub = NoHub
    /\ \/ input \in UriParts /\ storage = NoItem
       \/ input = NoInput /\ storage \in StoredItems

FunctionsNext ==
    \/ ParseUri
    \/ LoadStored

\* One call of parseRemoteSignerUri on any input, or of
\* loadStoredRemoteSignerSession on any item.
FunctionsSpec == FunctionsInit /\ [][FunctionsNext]_vars

(***************************************************************************)
(* eventHub (clone-events-sse)                                             *)
(***************************************************************************)
\* HubSpec: the largest EVENT_BUFFER, the publish calls of one run.
MaxCapacity == 3
MaxPublishes == 4

\* make(chan repoEvent, 10)
ChanCap == 10

\* The values of EVENT_BUFFER: getEnvInt takes any integer.
Capacities == (-1)..MaxCapacity

\* The Repo of the events the webhook publishes.
Repos == {"a", "b"}

\* newEventHub(maxBuffer): make([]repoEvent, 0, maxBuffer) panics on a
\* negative capacity and no hub is made.  `published` records the events
\* publish was called with.
newEventHub(maxBuffer) ==
    IF maxBuffer < 0
    THEN [NoHub EXCEPT !.panicked = TRUE, !.maxBuffer = maxBuffer]
    ELSE [NoHub EXCEPT !.created = TRUE, !.maxBuffer = maxBuffer]

\* select { case ch <- evt: default: }
TrySend(ch, evt) == IF Len(ch) < ChanCap THEN Append(ch, evt) ELSE ch

RECURSIVE TrySendAll(_, _)
TrySendAll(ch, events) ==
    IF Len(events) = 0 THEN ch
    ELSE TrySendAll(TrySend(ch, Head(events)), Tail(events))

hubRest == <<state, lastError, session, storage, sub, pending, timers, req, conn, boot,
             windowNostr, originalNostr, input, output, outbox>>

\* eventHub.publish(evt).  h.buffer[1:] of an empty slice is out of range:
\* the call panics with the lock held (there is no deferred Unlock), and
\* net/http recovers the panic of a handler, so the process goes on.
publish(evt) ==
    /\ hub.created /\ ~hub.locked
    /\ Len(hub.published) < MaxPublishes
    /\ IF Len(hub.buffer) >= hub.maxBuffer /\ Len(hub.buffer) = 0
       THEN hub' = [hub EXCEPT !.locked = TRUE, !.panicked = TRUE,
                               !.published = Append(@, evt)]
       ELSE hub' = [hub EXCEPT
                      !.buffer = Append(IF Len(@) >= hub.maxBuffer THEN Tail(@) ELSE @, evt),
                      !.subscribers = [ch \in DOMAIN @ |-> TrySend(@[ch], evt)],
                      !.published = Append(@, evt)]
    /\ UNCHANGED hubRest

\* eventHub.subscribe(): a new channel, sent the buffered events.
subscribe ==
    /\ hub.created /\ ~hub.locked
    /\ Len(hub.subscribers) = 0
    /\ hub' = [hub EXCEPT !.subscribers = <<TrySendAll(<<>>, hub.buffer)>>]
    /\ UNCHANGED hubRest

\* The /events handler takes an event from its channel and writes it.
receive(ch) ==
    /\ hub.created
    /\ ch \in DOMAIN hub.subscribers
    /\ Len(hub.subscribers[ch]) > 0
    /\ hub' = [hub EXCEPT !.subscribers[ch] = Tail(@)]
    /\ UNCHANGED hubRest

\* eventHub.unsubscribe(ch), deferred by the /events handler.
unsubscribe(ch) ==
    /\ hub.created /\ ~hub.locked
    /\ ch \in DOMAIN hub.subscribers
    /\ hub' = [hub EXCEPT !.subscribers = <<>>]
    /\ UNCHANGED hubRest

HubInit ==
    /\ NewManager({NoProvider})
    /\ storage = NoItem
    /\ input = NoInput
    /\ hub \in {newEventHub(maxBuffer) : maxBuffer \in Capacities}

HubNext ==
    \/ \E repo \in Repos : publish([Type |-> "repo_cloned", Repo |-> repo])
    \/ subscribe
    \/ \E ch \in DOMAIN hub.subscribers : receive(ch)
    \/ \E ch \in DOMAIN hub.subscribers : unsubscribe(ch)

\* The hub of the helper under webhook posts and one SSE client.
HubSpec == HubInit /\ [][HubNext]_vars

(***************************************************************************)
(* Properties                                                              *)
(***************************************************************************)
Rejected(message) == <<[kind |-> "reject", value |-> message]>>

\* The request was settled by its timer.
TimedOut(id) ==
    /\ req[id].calls # <<>>
    /\ req[id].calls[1] = [kind |-> "reject", value |-> TimeoutMessage(req[id].method)]

\* connect() call c is in its Connecting phase: before activateSession.
InConnectingPhase(c) ==
    conn[c].pc \in {"subscribe", "send_connect", "await_connect",
                    "send_get_public_key", "await_get_public_key"}

\* The client pubkey of the session connect() call c builds.
ConnectKey(c) == getPublicKey(generatePrivateKey(c))

\* C1: a connect() call started in Idle with no session, whose connect or
\* get_public_key request the remote signer answered in time with a result,
\* does not fail on the time-out of that request (it goes on to Ready).
C1_AnsweredPairingDoesNotTimeOut ==
    \A c \in DOMAIN conn :
        (conn[c].fromIdle /\ conn[c].answered /\ conn[c].pc = "failed")
            => ~TimedOut(conn[c].rid)

\* C2: while the state is Connecting or Error, no capability operation gets
\* past requireSession: none starts a sendRequest call.
C2_NoCapabilityRequestWhileConnectingOrError ==
    [][(state \in {"connecting", "error"})
          => ~(Len(req') > Len(req) /\ req'[Len(req')].owner = 0)]_vars

\* C3: while a connect() call is in its Connecting phase, a further connect()
\* call fails fast: it does not get past its entry (no further attempt is
\* started).
C3_SecondConnectFailsFast ==
    [][(state = "connecting" /\ \E c \in DOMAIN conn : InConnectingPhase(c))
          => Len(conn') = Len(conn)]_vars

\* C4: each request's promise is resolved or rejected at most once and its
\* entry is removed from the pending map at most once; an entry in the map
\* is unsettled and has its timer armed; a published request that is
\* settled had its entry removed exactly once.
C4_SettledExactlyOnce ==
    /\ timers = pending
    /\ \A id \in DOMAIN req :
          /\ Len(req[id].calls) <= 1
          /\ req[id].removals <= 1
          /\ id \in pending => (req[id].sent /\ req[id].calls = <<>> /\ req[id].removals = 0)
          /\ (req[id].sent /\ id \notin pending)
                => (Len(req[id].calls) = 1 /\ req[id].removals = 1)

\* One request was resolved by its response, another rejected by its timer.
C4_Witness ==
    /\ \E id \in DOMAIN req : req[id].calls # <<>> /\ req[id].calls[1].kind = "resolve"
    /\ \E id \in DOMAIN req : TimedOut(id)

\* C5: a request settled by its timer was rejected with the time-out error
\* and is out of the pending map; from then on the request is never touched
\* again, and a step that changes the pending map, the timers, a request,
\* the session, the storage, the subscription or the state is not the
\* handling of an event carrying its id.
C5_TimeoutThenLateResponseIsNoOp ==
    /\ [](\A id \in DOMAIN req :
            TimedOut(id) => (id \notin pending /\ id \notin timers
                             /\ Len(req[id].calls) = 1 /\ req[id].removals = 1))
    /\ [][\A id \in DOMAIN req : TimedOut(id) =>
            /\ req'[id] = req[id]
            /\ \/ UNCHANGED <<state, lastError, session, storage, sub,
                              pending, timers, req>>
               \/ \A event \in ResponsesTo(id) : ~Deliver(event)]_vars

\* A request timed out and a response to it, addressed to the active
\* session, can still be delivered.
C5_Witness ==
    \E id \in DOMAIN req :
        /\ TimedOut(id)
        /\ sub # NoSub /\ ~MicrotaskQueued
        /\ \E event \in ResponsesTo(id) : Accepts(event) /\ event.out.error = ""

\* C6: disconnect() with requests pending rejects each of them with
\* "Remote signer disconnected", clears their timers and empties the map.
C6_DisconnectRejectsAllPending ==
    [][(pending # {} /\ Disconnect) =>
          /\ pending' = {}
          /\ timers' = {}
          /\ \A id \in pending : req'[id].calls = Rejected("Remote signer disconnected")]_vars

\* Three requests were pending together and disconnect() rejected them.
C6_Witness ==
    /\ Len(req) = MaxOperations
    /\ \A id \in DOMAIN req : req[id].calls = Rejected("Remote signer disconnected")
    /\ state = "idle" /\ pending = {} /\ timers = {}

\* C7: when connect() fails on its connect or get_public_key request (timed
\* out, answered with an error, or answered with an unusable result), its
\* catch block leaves the state Error with a message, no session, an empty
\* storage slot, an empty pending map with no timer armed, and every request
\* that was pending rejected.
C7_PairingFailureClearsEverything ==
    [][\A c \in DOMAIN conn :
          (conn[c].pc \in {"await_connect", "await_get_public_key"} /\ conn'[c].pc = "failed")
              => /\ state' = "error"
                 /\ lastError' # ""
                 /\ session' = NoSession
                 /\ storage' = NoItem
                 /\ pending' = {}
                 /\ timers' = {}
                 /\ \A id \in pending : req'[id].calls = Rejected("Remote signer disconnected")]_vars

\* connect() failed on an unusable get_public_key result.
C7_Witness ==
    \E c \in DOMAIN conn :
        /\ conn[c].pc = "failed"
        /\ state = "error"
        /\ lastError = "Remote signer did not return a pubkey"
        /\ session = NoSession /\ storage = NoItem

\* Both requests of connect() call c were resolved, get_public_key after
\* connect and with a non-empty string.
BothRoundTripsSucceeded(c) ==
    \E i, j \in DOMAIN req :
        /\ i < j
        /\ req[i].owner = c /\ req[i].method = "connect"
        /\ req[i].calls # <<>> /\ req[i].calls[1].kind = "resolve"
        /\ req[j].owner = c /\ req[j].method = "get_public_key"
        /\ req[j].calls # <<>> /\ req[j].calls[1].kind = "resolve"
        /\ req[j].calls[1].value \notin {"", NotAString}

\* C8: the session of a connect() call is in the storage slot, and the call
\* has notified Ready, only if both its requests were resolved; the slot
\* never holds a session with an empty userPubkey.
C8_PersistAndReadyOnlyAfterBothRoundTrips ==
    /\ \A c \in DOMAIN conn :
          ((storage # NoItem /\ storage.clientPubkey = ConnectKey(c)) \/ conn[c].pc = "done")
              => BothRoundTripsSucceeded(c)
    /\ storage # NoItem => storage.userPubkey # ""

\* connect() went through: Ready, with its session stored under the user
\* pubkey the remote signer returned.
C8_Witness ==
    \E c \in DOMAIN conn :
        /\ conn[c].pc = "done"
        /\ state = "ready"
        /\ storage # NoItem
        /\ storage.clientPubkey = ConnectKey(c)
        /\ storage.userPubkey = UserKeyLower

\* C9: with a valid session in the storage slot, bootstrapFromStorage()
\* makes it the active session, subscribes for its client pubkey and
\* notifies Ready, the slot still holding it; its steps create no request,
\* and from its start to its end no request is published.
C9_BootstrapRestoresWithoutRequest ==
    [][/\ (boot.pc = "new" /\ boot'.pc = "activate")
            => (session' = storage /\ boot'.sess = storage /\ storage' = storage
                /\ req' = req /\ pending' = pending)
       /\ (boot.pc = "activate" /\ boot'.pc = "apply_adapter")
            => (sub' = boot.sess.clientPubkey /\ req' = req /\ pending' = pending)
       /\ (boot.pc = "notify_ready" /\ boot'.pc = "done")
            => (state' = "ready" /\ session' = boot.sess /\ storage' = boot.sess
                /\ sub' = boot.sess.clientPubkey /\ req' = req /\ pending' = pending)
       /\ (boot.pc \in {"activate", "apply_adapter", "notify_ready"})
            => (SentIds' = SentIds /\ pending' = pending)]_vars

\* bootstrapFromStorage() finished: Ready on the stored session, nothing
\* was ever sent.
C9_Witness ==
    /\ boot.pc = "done"
    /\ state = "ready"
    /\ session = StoredSession /\ storage = StoredSession
    /\ sub = StoredSession.clientPubkey
    /\ req = <<>>

\* C10: when activateSession throws inside bootstrapFromStorage(), the
\* catch block leaves the state Error with a non-empty message for the
\* observer, no session and an empty storage slot.
C10_BootstrapFailureSurfacesError ==
    [][(boot.pc = "activate" /\ boot'.pc = "failed") =>
          /\ state' = "error"
          /\ lastError' # ""
          /\ session' = NoSession
          /\ storage' = NoItem]_vars

\* bootstrapFromStorage() failed on an error without a message.
C10_Witness ==
    /\ boot.pc = "failed"
    /\ state = "error"
    /\ lastError = "Failed to resume remote signer session"
    /\ session = NoSession /\ storage = NoItem

C12_UndecodableEventIsDropped ==
    [][\/ UNCHANGED <<state, lastError, session, storage, sub, pending, timers, req,
                      windowNostr>>
       \/ \A event \in {e \in StrayEvents : e.garbled} : ~Deliver(event)]_vars

\* Two requests are pending on the active session and an event for it can
\* be delivered.
C12_Witness ==
    /\ Cardinality(pending) = 2
    /\ session # NoSession /\ sub = session.clientPubkey
    /\ ~MicrotaskQueued
    /\ \E event \in StrayEvents : event.garbled /\ Accepts(event)

\* C13: with a session active, the handling of an event whose "p" tags do
\* not name the session's client pubkey changes nothing, even when the event
\* carries the id of a pending request.
C13_EventForAnotherRecipientIsDiscarded ==
    [][\/ UNCHANGED <<state, lastError, session, storage, sub, pending, timers, req,
                      windowNostr>>
       \/ session = NoSession
       \/ \A id \in pending : \A event \in ResponsesTo(id) :
              session.clientPubkey \notin event.p => ~Deliver(event)]_vars

\* A request is pending and a response to it, tagged for another client
\* pubkey than the active session's, can be delivered.
C13_Witness ==
    /\ session # NoSession
    /\ sub # NoSub /\ ~MicrotaskQueued
    /\ \E id \in pending : \E event \in ResponsesTo(id) :
          session.clientPubkey \notin event.p /\ event.out.error = ""


OutcomeOf(method, out) ==
    IF out.error # "" THEN Throws(out.error) ELSE ReturnOf(method, out.result)

C15_StateMachineFollowed ==
    [][(state' # state) =>
          \/ /\ state = "idle" /\ state' = "connecting"
             /\ \E uri \in PairingUris : ConnectStart(uri)
          \/ state = "connecting" /\ state' = "ready"
          \/ state = "idle" /\ state' = "ready" /\ BootFinish
          \/ state \in {"connecting", "ready"} /\ state' = "error"
          \/ state = "idle" /\ state' = "error" /\ boot'.pc = "failed" /\ boot.pc # "failed"
          \/ state' = "idle" /\ Disconnect]_vars

(***************************************************************************)
(* parseRemoteSignerUri and loadStoredRemoteSignerSession                  *)
(***************************************************************************)
\* A parseRemoteSignerUri call was made on the parts `input`.
Parsed == input # NoInput /\ output.called

\* The values of the relay parameters of a pairing URI, in order.
RelayValues(parts) ==
    LET hits == SelectSeq(parts.params, LAMBDA param : param[1] = "relay")
    IN  [i \in 1..Len(hits) |-> hits[i][2]]

\* The positions of the values that are not blank.
NonBlank(values) == {i \in 1..Len(values) : trim(values[i]) # ""}

\* `relays` is the values that are not blank, trimmed, in their order.
IsTrimmedNonBlank(relays, values) ==
    /\ Len(relays) = Cardinality(NonBlank(values))
    /\ \A i \in NonBlank(values) :
          relays[Cardinality({j \in NonBlank(values) : j <= i})] = trim(values[i])

\* C16, as the claim states it: a bunker:// URI with a key of 64 characters
\* and at least one relay parameter parses, to the same key and the same
\* relay list.
C16_EchoesKeyAndRelays ==
    (/\ Parsed
     /\ input.scheme = "bunker://"
     /\ Len(input.key) = KeyLength
     /\ Len(RelayValues(input)) >= 1)
    => /\ output.value.ok
       /\ output.value.remotePubkey = input.key
       /\ output.value.relays = RelayValues(input)

\* C16: a bunker:// URI, white space around it or not, with a key of 64
\* characters and at least one relay parameter whose value is not blank
\* parses, to the key in lower case and to the relay values that are not
\* blank, trimmed, in the same order.
C16_ParsesToLowerCaseKeyAndTrimmedRelays ==
    (/\ Parsed
     /\ input.scheme = "bunker://"
     /\ Len(input.key) = KeyLength
     /\ NonBlank(RelayValues(input)) # {})
    => /\ output.value.ok
       /\ output.value.remotePubkey = toLowerCase(input.key)
       /\ IsTrimmedNonBlank(output.value.relays, RelayValues(input))

C16_Witness ==
    /\ Parsed
    /\ input.scheme = "bunker://"
    /\ input.key = MixedCaseKey
    /\ input.params = <<<<"relay", "">>, Relay2>>
    /\ output.value.ok
    /\ output.value.remotePubkey = "abcdef" \o SubSeq(RemoteKeyA, 1, 58)
    /\ output.value.relays = <<"wss://r2">>

\* The messages of the two missing-relay errors.
MissingEndpoint ==
    {"Remote signer token missing relay query param", "nostrconnect URI missing relay"}

\* C17, as the claim states it: a pairing URI (of either scheme) without
\* relay parameter fails to parse, with the missing-relay error.
C17_NoRelayFailsWithMissingEndpoint ==
    (/\ Parsed
     /\ input.scheme \in {"bunker://", "nostrconnect://"}
     /\ Len(RelayValues(input)) = 0)
    => /\ ~output.value.ok
       /\ output.value.error \in MissingEndpoint

\* C17: a pairing URI with no relay parameter, or with blank ones only,
\* fails to parse; the error is the missing-relay one exactly when the
\* scheme is bunker:// or nostrconnect:// and the key has 64 characters,
\* the error of the scheme or of the key otherwise.
C17_NoRelayFails ==
    (Parsed /\ NonBlank(RelayValues(input)) = {})
    => /\ ~output.value.ok
       /\ output.value.error \in MissingEndpoint
             <=> /\ input.scheme \in {"bunker://", "nostrconnect://"}
                 /\ Len(input.key) = KeyLength

C17_Witness ==
    /\ Parsed
    /\ input.scheme = "nostrconnect://"
    /\ input.key = RemoteKeyA
    /\ input.params = <<<<"secret", "s1">>>>
    /\ ~output.value.ok
    /\ output.value.error = "nostrconnect URI missing relay"

\* The values of the perms parameters of a pairing URI.
PermsValues(parts) ==
    LET hits == SelectSeq(parts.params, LAMBDA param : param[1] = "perms")
    IN  [i \in 1..Len(hits) |-> hits[i][2]]

\* The permissions a pairing URI supplies: the entries of its perms
\* parameter that are not blank.
SuppliesPermissions(parts) ==
    /\ Len(PermsValues(parts)) >= 1
    /\ NonBlank(split(PermsValues(parts)[1], ",")) # {}

\* C18, as the claim states it: a nostrconnect:// URI that supplies no
\* permissions fails to parse.
C18_NoPermissionsIsRejected ==
    (Parsed /\ input.scheme = "nostrconnect://" /\ ~SuppliesPermissions(input))
    => ~output.value.ok

\* C18: a nostrconnect:// URI with a key of 64 characters and a relay
\* parses whether it supplies permissions or not: without perms parameter
\* its permissions are undefined, with one they are the entries of the
\* parameter that are not blank, trimmed, in order (none for an empty
\* parameter).
C18_PermissionsAreOptional ==
    (/\ Parsed
     /\ input.scheme = "nostrconnect://"
     /\ Len(input.key) = KeyLength
     /\ NonBlank(RelayValues(input)) # {})
    => /\ output.value.ok
       /\ IF Len(PermsValues(input)) = 0
          THEN output.value.permissions = Undefined
          ELSE /\ Len(output.value.permissions) = 1
               /\ IsTrimmedNonBlank(output.value.permissions[1],
                                    split(PermsValues(input)[1], ","))

C18_Witness ==
    /\ Parsed
    /\ input.scheme = "nostrconnect://"
    /\ input.key = RemoteKeyA
    /\ input.params = <<Relay1>>
    /\ output.value.ok
    /\ output.value.permissions = Undefined

\* C19: a URI whose key has not 64 characters fails to parse, so every
\* configuration returned has a key of 64 characters and at least one
\* relay, none of them empty.
C19_ReturnedKeyIsCanonical ==
    Parsed =>
        /\ Len(input.key) # KeyLength => ~output.value.ok
        /\ output.value.ok =>
              /\ Len(output.value.remotePubkey) = KeyLength
              /\ Len(output.value.relays) >= 1
              /\ \A i \in 1..Len(output.value.relays) : output.value.relays[i] # ""

\* A loadStoredRemoteSignerSession call was made.
Loaded == input = NoInput /\ output.called

\* A public key as the parser and get_public_key give it; a secret key
\* as generatePrivateKey gives it.
IsWellFormedPubkey(key) == Len(key) = KeyLength
IsWellFormedSecretKey(key) == \E n \in 0..9 : key = generatePrivateKey(n)

\* C20: loadStoredRemoteSignerSession returns a session only when the slot
\* holds a record that parses and whose remote pubkey, client secret key
\* and user pubkey are present and well-formed.
C20_OnlyWellFormedRecordIsLoaded ==
    (Loaded /\ output.value # NoSession)
    => /\ storage \notin {NoItem, Unparsable}
       /\ IsWellFormedPubkey(storage.remotePubkey)
       /\ IsWellFormedSecretKey(storage.clientSecretKey)
       /\ IsWellFormedPubkey(storage.userPubkey)

(***************************************************************************)
(* Outbound requests                                                       *)
(***************************************************************************)
\* The publish call whose event carries the payload of request id.
PublishedFor(id) ==
    {m \in outbox : m.event.content.plaintext[1] = <<"id", id>>}

\* C21, as the claim states it: the event of every published request
\* carries {id, method, params} encrypted for the remote pubkey of the
\* request's session, has the protocol kind, names the client pubkey of the
\* session in its one "p" tag, and goes to all the relays of the session.
C21_TaggedWithClientKey ==
    \A id \in SentIds :
        \E m \in outbox :
            /\ m.event.content.plaintext =
                  <<<<"id", id>>, <<"method", req[id].method>>, <<"params", req[id].params>>>>
            /\ m.event.content.to = req[id].sess.remotePubkey
            /\ m.event.kind = KIND_NIP46
            /\ m.event.tags = <<<<"p", req[id].sess.clientPubkey>>>>
            /\ m.relays = req[id].sess.relays

\* C21: one publish call is made for every published request and none for
\* anything else; its event carries {id, method, params} encrypted with the
\* client secret key for the remote pubkey of the request's session, has
\* the protocol kind, is authored by the client pubkey of the session,
\* names the remote pubkey in its one "p" tag, and goes to all the relays
\* of the session.
C21_OutboundEnvelope ==
    /\ \A id \in SentIds :
          /\ Cardinality(PublishedFor(id)) = 1
          /\ \A m \in PublishedFor(id) :
                /\ m.event.content.plaintext =
                      <<<<"id", id>>, <<"method", req[id].method>>,
                        <<"params", req[id].params>>>>
                /\ m.event.content.to = req[id].sess.remotePubkey
                /\ m.event.content.from = req[id].sess.clientPubkey
                /\ m.event.kind = KIND_NIP46
                /\ m.event.pubkey = req[id].sess.clientPubkey
                /\ m.event.tags = <<<<"p", req[id].sess.remotePubkey>>>>
                /\ m.relays = req[id].sess.relays
    /\ Cardinality(outbox) = Cardinality(SentIds)

\* A connect request and a capability request were published, the second
\* for a session of two relays.
C21_Witness ==
    \E id1, id2 \in SentIds :
        /\ req[id1].method = "connect" /\ Len(req[id1].params) = 2
        /\ req[id2].method = "nip44_encrypt" /\ Len(req[id2].sess.relays) = 2
        /\ PublishedFor(id1) # {} /\ PublishedFor(id2) # {}

(***************************************************************************)
(* eventHub                                                                *)
(***************************************************************************)
\* The last n elements of a sequence.
LastOf(seq, n) == SubSeq(seq, Len(seq) - n + 1, Len(seq))

Min(a, b) == IF a <= b THEN a ELSE b

\* C22: for a hub made with any capacity, every publish call returns, the
\* buffer is never longer than maxBuffer and holds the last
\* min(n, maxBuffer) of the n events published, in order.
C22_BufferHoldsLastEvents ==
    hub.created =>
        /\ ~hub.panicked
        /\ Len(hub.buffer) <= hub.maxBuffer
        /\ hub.buffer = LastOf(hub.published, Min(Len(hub.published), hub.maxBuffer))

\* C23: the step that publishes a request registers its pending entry and
\* its timer, so a published request is out of the pending map only once
\* its promise was settled: no event is handled while a request is
\* published and not yet registered.
C23_RegisteredWhenPublished ==
    /\ [](\A id \in SentIds : id \notin pending => req[id].calls # <<>>)
    /\ [][\A id \in DOMAIN req' :
            (req'[id].sent /\ (id \notin DOMAIN req \/ ~req[id].sent))
            => (id \in pending' /\ id \in timers' /\ PublishedFor(id)' # {})]_vars

\* Two requests are published and pending, and a response to the second,
\* addressed to the session, can be delivered.
C23_Witness ==
    /\ Cardinality(outbox) = 2 /\ Cardinality(pending) = 2
    /\ sub # NoSub /\ ~MicrotaskQueued
    /\ \E event \in ResponsesTo(2) : Accepts(event) /\ event.out.error = ""

\* C24: every request a caller awaits gets an outcome in the end, whatever
\* disconnect(), connect() and failing pairings do in between.
C24_EveryRequestGetsAnOutcome ==
    \A id \in 1..MaxRequests :
        (id \in DOMAIN req) ~> (id \in DOMAIN req /\ req[id].calls # <<>>)

\* Of two requests, one was rejected by the clearing of the session and
\* the other, published afterwards, by its timer.
C24_Witness ==
    \E id1, id2 \in DOMAIN req :
        /\ req[id1].calls = Rejected("Remote signer disconnected")
        /\ TimedOut(id2)
        /\ req[id2].sess = req[id1].sess

\* C25: every pending request has a timer of its own, and the handling of
\* a response to one request, or the expiry of its timer, leaves every
\* other request, its pending entry and its timer as they were.
C25_RequestsAreIndependent ==
    /\ [](pending \subseteq timers)
    /\ [][\/ UNCHANGED <<pending, timers, req>>
          \/ \A id \in SentIds :
                (TimerFire(id) \/ \E event \in ResponsesTo(id) : Deliver(event))
                => \A other \in DOMAIN req \ {id} :
                      /\ req'[other] = req[other]
                      /\ other \in pending' <=> other \in pending
                      /\ other \in timers' <=> other \in timers]_vars

\* In state ready, one of three requests was resolved by a response and
\* another rejected by its timer while the third is pending.
C25_Witness ==
    /\ state = "ready"
    /\ Len(req) = 3 /\ Cardinality(pending) = 1
    /\ \E id \in DOMAIN req : req[id].calls # <<>> /\ req[id].calls[1].kind = "resolve"
    /\ \E id \in DOMAIN req : TimedOut(id)

\* C26: in state ready the session is present with a confirmed user key,
\* the subscription for its client pubkey is active and the storage slot
\* holds that session, whatever the interleaving of disconnect() with a
\* connect() or bootstrapFromStorage() call under way.
C26_ReadyHasSessionSubscriptionAndStorage ==
    state = "ready" =>
        /\ session # NoSession
        /\ session.userPubkey # ""
        /\ sub = session.clientPubkey
        /\ storage = persistRemoteSignerSession(session)

\* The manager as disconnect() leaves it.
Disconnected ==
    /\ state = "idle"
    /\ session = NoSession
    /\ sub = NoSub
    /\ storage = NoItem
    /\ windowNostr = originalNostr

\* The step is the start of a connect() or bootstrapFromStorage() call.
LifecycleCallStarts ==
    \/ Len(conn') > Len(conn)
    \/ boot.pc = "new" /\ boot'.pc # "new"

\* C27: once disconnect() has returned, the manager stays idle with no
\* session, no subscription, an empty storage slot and the page's own
\* provider until connect() or bootstrapFromStorage() is called again; a
\* call that was under way changes none of these.
C27_DisconnectIsFinal ==
    [][(Disconnected /\ ~LifecycleCallStarts) => Disconnected']_vars

\* C28: while a request is pending, the subscription for the client pubkey
\* of the session that sent it is active; a sendRequest call suspended
\* before its publish when the session was torn down publishes nothing and
\* registers nothing afterwards.
C28_PendingImpliesSubscription ==
    \A id \in pending : sub = req[id].sess.clientPubkey

\* C29: a pending request is settled by an inbound event only if the
\* event's sender is the remote pubkey of the session; an event of another
\* sender, addressed to the client pubkey and carrying the id of a pending
\* request, settles nothing.
C29_OnlyRemoteSignerSettles ==
    [][\/ UNCHANGED pending
       \/ \A i \in SentIds : \A event \in ResponsesTo(i) :
             (Deliver(event) /\ i \in pending /\ i \notin pending')
             => event.from = session.remotePubkey]_vars

\* C30: the params of a connect request are positional: the remote pubkey
\* first, the secret (when the URI has one) second, and the permission
\* list in the third position only, never in the position of the secret.
C30_ConnectParamsArePositional ==
    \A id \in DOMAIN req :
        req[id].method = "connect" =>
            LET params == req[id].params
                sess   == req[id].sess
            IN  /\ params[1] = sess.remotePubkey
                /\ sess.secret # Undefined =>
                      Len(params) >= 2 /\ params[2] = sess.secret[1]
                /\ (sess.permissions # Undefined /\ Len(sess.permissions[1]) > 0) =>
                      \A k \in 1..Len(params) :
                          params[k] = join(sess.permissions[1]) => k = 3
=============================================================================
